---- MODULE Spec2Model ----
(***************************************************************************)
(* Model of app/core/bk_asr/asr_data.py: ASRDataSeg / ASRData.             *)
(*                                                                         *)
(* A text is a sequence of characters; a character is a one-element name   *)
(* ("a", "SP" for a space, "FWCOMMA" for the full-width comma U+FF0C,      *)
(* "IDEOSTOP" for the ideographic full stop U+3002, "HAN" for a CJK        *)
(* ideograph, ...).  A segment is a record with the fields of ASRDataSeg.  *)
(***************************************************************************)
EXTENDS Integers, Sequences, FiniteSets, TLC

VARIABLES
    segments,   \* ASRData.segments
    last,       \* the operation performed last: its name, arguments, the
                \* segments before it and whether it raised
    ops,        \* the number of operations performed on the document
    from_ass    \* the locals of a running ASRData.from_ass call

vars == <<segments, last, ops, from_ass>>

(***************************************************************************)
(* Bounds of the explored inputs.                                          *)
(***************************************************************************)
MaxSegs == 2
MaxTime == 2
MaxOps == 3

(***************************************************************************)
(* Characters.                                                             *)
(***************************************************************************)
Whitespace == {"SP", "NL"}
AsciiLetters == {"a", "b", "c", "d", "e"}
AsciiDigits == {"1", "2"}
AsciiChars == AsciiLetters \cup AsciiDigits \cup Whitespace \cup {"'", ","}
Punctuation == {"FWCOMMA", "IDEOSTOP"}

\* the character classes of the pattern of split_to_word_segments
LatinChars == AsciiLetters \cup {"EACUTE", "'"}
CyrillicChars == {"CYR_YA"}
GreekChars == {"GR_LAMBDA"}
ArabicChars == {"AR_AIN"}
HebrewChars == {"HE_SHIN"}
HanChars == {"HAN", "HAN2"}
HiraganaChars == {"HIRA_A"}
KatakanaChars == {"KATA_KA"}
HangulChars == {"HANGUL"}
ThaiMarkChars == {"THAI_SARA_I"}
ThaiChars == {"THAI_KO"} \cup ThaiMarkChars
DevanagariChars == {"DEVA_KA"}
BengaliChars == {"BENG_KA"}
LaoChars == {"LAO_KO"}
BurmeseChars == {"BURM_KA"}

WordClasses ==
    <<LatinChars, CyrillicChars, GreekChars, ArabicChars, HebrewChars, AsciiDigits>>

(***************************************************************************)
(* str helpers.                                                            *)
(***************************************************************************)
RECURSIVE LStrip(_)
LStrip(s) ==
    IF s # <<>> /\ Head(s) \in Whitespace THEN LStrip(Tail(s)) ELSE s

RECURSIVE RStrip(_)
RStrip(s) ==
    IF s # <<>> /\ s[Len(s)] \in Whitespace
    THEN RStrip(SubSeq(s, 1, Len(s) - 1))
    ELSE s

\* str.strip()
Strip(s) == RStrip(LStrip(s))

\* len(str.split())
SplitCount(s) ==
    Cardinality({i \in 1..Len(s) :
        /\ s[i] \notin Whitespace
        /\ (i = 1 \/ s[i - 1] \in Whitespace)})

\* str.isascii()
IsAscii(s) == \A i \in 1..Len(s) : s[i] \in AsciiChars

\* re.sub("[，。]+$", "", s)
RECURSIVE SubTrailingPunctuation(_)
SubTrailingPunctuation(s) ==
    IF s # <<>> /\ s[Len(s)] \in Punctuation
    THEN SubTrailingPunctuation(SubSeq(s, 1, Len(s) - 1))
    ELSE s

\* a division that rounds toward zero, as C-style integer division does
FloorDivTowardZero(a, b) ==
    IF a >= 0 THEN a \div b ELSE -((-a) \div b)

\* Python's // on integers: floor division (the divisors are 2 and 4)
FloorDiv(a, b) == a \div b

\* math.ceil(n / d) for n >= 0, d > 0
Ceil(n, d) == (n + d - 1) \div d

(***************************************************************************)
(* ASRDataSeg                                                              *)
(***************************************************************************)
ASRDataSeg(text, start_time, end_time, translated_text) ==
    [text |-> text, translated_text |-> translated_text,
     start_time |-> start_time, end_time |-> end_time]

(***************************************************************************)
(* ASRData.__init__                                                        *)
(***************************************************************************)
\* seg.text and seg.text.strip()
HasText(seg) == seg.text # <<>> /\ Strip(seg.text) # <<>>

\* list.sort(key=start_time): stable
InsertByStart(sorted, x) ==
    LET k == Cardinality({i \in 1..Len(sorted) :
                sorted[i].start_time <= x.start_time})
    IN SubSeq(sorted, 1, k) \o <<x>> \o SubSeq(sorted, k + 1, Len(sorted))

RECURSIVE SortedByStartTime(_)
SortedByStartTime(s) ==
    IF s = <<>> THEN <<>>
    ELSE InsertByStart(SortedByStartTime(SubSeq(s, 1, Len(s) - 1)), s[Len(s)])

NewASRData(segs) == SortedByStartTime(SelectSeq(segs, HasText))

(***************************************************************************)
(* ASRData.is_word_timestamp                                               *)
(***************************************************************************)
IsValidWordSegment(seg) ==
    LET text == Strip(seg.text)
    IN (SplitCount(text) = 1 /\ IsAscii(text)) \/ Len(Strip(text)) <= 2

\* a test that wants every segment to be valid
IsWordTimestampStrict(segs) ==
    segs # <<>> /\ \A i \in 1..Len(segs) : IsValidWordSegment(segs[i])

\* (valid_segments / total_segments) >= 0.8
IsWordTimestamp(segs) ==
    IF segs = <<>> THEN FALSE
    ELSE LET valid_segments ==
                 Cardinality({i \in 1..Len(segs) : IsValidWordSegment(segs[i])})
             total_segments == Len(segs)
         IN 10 * valid_segments >= 8 * total_segments

(***************************************************************************)
(* ASRData.split_to_word_segments                                          *)
(***************************************************************************)
CHARS_PER_PHONEME == 4

\* the word-like alternative of the pattern that matches c, 0 if none does
WordClassOf(c) ==
    IF \E k \in 1..Len(WordClasses) : c \in WordClasses[k]
    THEN CHOOSE k \in 1..Len(WordClasses) :
            /\ c \in WordClasses[k]
            /\ \A m \in 1..(k - 1) : c \notin WordClasses[m]
    ELSE 0

\* the last index of the longest run of characters of cls that starts at i
\* (i - 1 when text[i] is not of cls)
RECURSIVE RunEnd(_, _, _)
RunEnd(text, i, cls) ==
    IF i <= Len(text) /\ text[i] \in cls THEN RunEnd(text, i + 1, cls) ELSE i - 1

\* [m.group() for m in re.finditer(pattern, text)], scanning from index i
RECURSIVE FindWords(_, _)
FindWords(text, i) ==
    IF i > Len(text) THEN <<>>
    ELSE LET c == text[i]
             k == WordClassOf(c)
         IN  IF k # 0
             THEN LET j == RunEnd(text, i, WordClasses[k])
                  IN <<SubSeq(text, i, j)>> \o FindWords(text, j + 1)
             ELSE IF c \in HanChars \cup HiraganaChars \cup KatakanaChars \cup HangulChars
             THEN <<SubSeq(text, i, i)>> \o FindWords(text, i + 1)
             ELSE IF c \in ThaiChars
             THEN LET j == RunEnd(text, i + 1, ThaiMarkChars)
                  IN <<SubSeq(text, i, j)>> \o FindWords(text, j + 1)
             ELSE IF c \in DevanagariChars \cup BengaliChars \cup LaoChars \cup BurmeseChars
             THEN <<SubSeq(text, i, i)>> \o FindWords(text, i + 1)
             ELSE FindWords(text, i + 1)

\* a phoneme count that rounds down
WordPhonemesRoundedDown(word) == Len(word) \div CHARS_PER_PHONEME

\* math.ceil(len(word) / CHARS_PER_PHONEME)
WordPhonemes(word) == Ceil(Len(word), CHARS_PER_PHONEME)

RECURSIVE SumPhonemes(_)
SumPhonemes(words_list) ==
    IF words_list = <<>> THEN 0
    ELSE WordPhonemes(Head(words_list)) + SumPhonemes(Tail(words_list))

Max(a, b) == IF a >= b THEN a ELSE b
Min(a, b) == IF a <= b THEN a ELSE b

(***************************************************************************)
(* Python floats (IEEE 754 binary64, round to nearest, ties to even).      *)
(* A float is [neg, m, e]: the value (-1)^neg * m * 2^e, where m is the    *)
(* significand as binary digits, most significant first, of MantissaBits   *)
(* digits (one more when rounding carried into a power of two); zero has   *)
(* m = <<>>.  The numerators are below 2^30 in magnitude, the divisors and *)
(* multipliers are positive and below 2^10, so no float overflows or is    *)
(* subnormal.  Long digit strings are handled LimbBits digits at a time.   *)
(***************************************************************************)
MantissaBits == 53
LimbBits == 20

\* the number of binary digits of n, 0 <= n < 2^30
BitLen(n) == CHOOSE k \in 0..30 : n < 2^k /\ (k = 0 \/ n >= 2^(k - 1))

\* the w low binary digits of n >= 0, most significant first
FixedBits(n, w) == [i \in 1..w |-> (n \div 2^(w - i)) % 2]

\* the binary digits of n >= 0, most significant first
Bits(n) == FixedBits(n, BitLen(n))

\* the number with the binary digits b, at most 30 of them
RECURSIVE BitsValue(_)
BitsValue(b) ==
    IF b = <<>> THEN 0 ELSE 2 * BitsValue(SubSeq(b, 1, Len(b) - 1)) + b[Len(b)]

\* b + 1
Incr(b) ==
    IF \A i \in 1..Len(b) : b[i] = 1
    THEN [i \in 1..(Len(b) + 1) |-> IF i = 1 THEN 1 ELSE 0]
    ELSE LET k == CHOOSE k \in 1..Len(b) :
                    b[k] = 0 /\ \A i \in (k + 1)..Len(b) : b[i] = 1
         IN [i \in 1..Len(b) |-> IF i < k THEN b[i] ELSE IF i = k THEN 1 ELSE 0]

\* the digits of b * p, for b of at most 3 * LimbBits digits
MulSmall(b, p) ==
    LET n   == Len(b)
        lo  == BitsValue(SubSeq(b, Max(n - LimbBits + 1, 1), n))
        mid == BitsValue(SubSeq(b, Max(n - 2 * LimbBits + 1, 1), n - LimbBits))
        hi  == BitsValue(SubSeq(b, 1, n - 2 * LimbBits))
        v0  == lo * p
        v1  == mid * p + v0 \div 2^LimbBits
        v2  == hi * p + v1 \div 2^LimbBits
    IN Bits(v2) \o FixedBits(v1 % 2^LimbBits, LimbBits)
               \o FixedBits(v0 % 2^LimbBits, LimbBits)

\* long division of n >= 0 by t > 0: the digits of the integer part, then
\* 4 * LimbBits digits after the binary point, and the remainder left
DivDigits(n, t) ==
    LET s1 == (n % t) * 2^LimbBits
        s2 == (s1 % t) * 2^LimbBits
        s3 == (s2 % t) * 2^LimbBits
        s4 == (s3 % t) * 2^LimbBits
    IN [int |-> Bits(n \div t),
        digits |-> Bits(n \div t) \o FixedBits(s1 \div t, LimbBits)
                   \o FixedBits(s2 \div t, LimbBits)
                   \o FixedBits(s3 \div t, LimbBits)
                   \o FixedBits(s4 \div t, LimbBits),
        rem |-> s4 % t]

\* the digits b and what follows them (more # 0: further non-zero digits)
\* rounded to MantissaBits significant digits; b starts with 1
RoundDigits(b, more) ==
    IF Len(b) <= MantissaBits THEN [m |-> b, shift |-> 0]
    ELSE LET top == SubSeq(b, 1, MantissaBits)
             half == b[MantissaBits + 1] = 1
             sticky == more # 0 \/ \E i \in (MantissaBits + 2)..Len(b) : b[i] = 1
             up == half /\ (sticky \/ top[MantissaBits] = 1)
         IN [m |-> IF up THEN Incr(top) ELSE top, shift |-> Len(b) - MantissaBits]

\* a / b for integers a and b > 0, correctly rounded
FloatDiv(a, b) ==
    IF a = 0 THEN [neg |-> FALSE, m |-> <<>>, e |-> 0]
    ELSE LET q == DivDigits(IF a < 0 THEN -a ELSE a, b)
             first == CHOOSE i \in 1..Len(q.digits) :
                        q.digits[i] = 1 /\ \A j \in 1..(i - 1) : q.digits[j] = 0
             r == RoundDigits(SubSeq(q.digits, first, Len(q.digits)), q.rem)
         IN [neg |-> a < 0, m |-> r.m,
             e |-> r.shift - (Len(q.digits) - Len(q.int))]

\* x * p for a float x and an integer p > 0, correctly rounded
FloatMulInt(x, p) ==
    IF x.m = <<>> THEN x
    ELSE LET r == RoundDigits(MulSmall(x.m, p), 0)
         IN [neg |-> x.neg, m |-> r.m, e |-> x.e + r.shift]

\* int(x): truncation toward zero
IntOfFloat(x) ==
    LET magnitude ==
            IF x.e >= 0 THEN BitsValue(x.m) * 2^x.e
            ELSE IF -x.e >= Len(x.m) THEN 0
            ELSE BitsValue(SubSeq(x.m, 1, Len(x.m) + x.e))
    IN IF x.neg THEN -magnitude ELSE magnitude

\* time_per_phoneme = duration / max(total_phonemes, 1)
TimePerPhoneme(duration, total_phonemes) == FloatDiv(duration, Max(total_phonemes, 1))

\* word_duration = int(time_per_phoneme * word_phonemes)
WordDuration(time_per_phoneme, word_phonemes) ==
    IntOfFloat(FloatMulInt(time_per_phoneme, word_phonemes))

\* the inner loop over words_list of one segment
RECURSIVE SplitWords(_, _, _, _)
SplitWords(words_list, current_time, time_per_phoneme, seg_end_time) ==
    IF words_list = <<>> THEN <<>>
    ELSE LET word == Head(words_list)
             word_phonemes == WordPhonemes(word)
             word_duration == WordDuration(time_per_phoneme, word_phonemes)
             word_end_time == Min(current_time + word_duration, seg_end_time)
         IN <<ASRDataSeg(word, current_time, word_end_time, <<>>)>>
            \o SplitWords(Tail(words_list), word_end_time, time_per_phoneme,
                          seg_end_time)

\* the body of the outer loop: the new segments of one segment
SplitSegment(seg) ==
    LET words_list == FindWords(seg.text, 1)
        duration == seg.end_time - seg.start_time
    IN  IF words_list = <<>> THEN <<>>
        ELSE SplitWords(words_list, seg.start_time,
                        TimePerPhoneme(duration, SumPhonemes(words_list)),
                        seg.end_time)

RECURSIVE SplitToWordSegmentsOf(_)
SplitToWordSegmentsOf(segs) ==
    IF segs = <<>> THEN <<>>
    ELSE SplitSegment(Head(segs)) \o SplitToWordSegmentsOf(Tail(segs))

(***************************************************************************)
(* ASRData.remove_punctuation                                              *)
(***************************************************************************)
RemovePunctuationOf(segs) ==
    [i \in 1..Len(segs) |->
        [segs[i] EXCEPT
            !.text = SubTrailingPunctuation(Strip(segs[i].text)),
            !.translated_text = SubTrailingPunctuation(Strip(segs[i].translated_text))]]

(***************************************************************************)
(* ASRData.optimize_timing                                                 *)
(***************************************************************************)
DefaultThresholdMs == 1000

\* the loop body for i, i + 1 (1-based) and the rest of the loop
RECURSIVE OptimizePass(_, _, _)
OptimizePass(segs, i, threshold_ms) ==
    IF i > Len(segs) - 1 THEN segs
    ELSE LET current_seg == segs[i]
             next_seg == segs[i + 1]
             time_gap == next_seg.start_time - current_seg.end_time
             mid_time == FloorDiv(current_seg.end_time + next_seg.start_time, 2)
                         + FloorDiv(time_gap, 4)
             after == IF time_gap < threshold_ms
                      THEN [segs EXCEPT ![i].end_time = mid_time,
                                        ![i + 1].start_time = mid_time]
                      ELSE segs
         IN OptimizePass(after, i + 1, threshold_ms)

\* a pass that moves the whole next segment along with its start_time
RECURSIVE ShiftingPass(_, _, _)
ShiftingPass(segs, i, threshold_ms) ==
    IF i > Len(segs) - 1 THEN segs
    ELSE LET time_gap == segs[i + 1].start_time - segs[i].end_time
             mid_time == FloorDiv(segs[i].end_time + segs[i + 1].start_time, 2)
                         + FloorDiv(time_gap, 4)
             after == IF time_gap < threshold_ms
                      THEN [segs EXCEPT
                              ![i].end_time = mid_time,
                              ![i + 1].start_time = mid_time,
                              ![i + 1].end_time = @ + mid_time - segs[i + 1].start_time]
                      ELSE segs
         IN ShiftingPass(after, i + 1, threshold_ms)

OptimizeTimingOfShifting(segs, threshold_ms) ==
    IF IsWordTimestamp(segs) THEN segs
    ELSE IF segs = <<>> THEN segs
    ELSE ShiftingPass(segs, 1, threshold_ms)

OptimizeTimingOf(segs, threshold_ms) ==
    IF IsWordTimestamp(segs) THEN segs
    ELSE IF segs = <<>> THEN segs
    ELSE OptimizePass(segs, 1, threshold_ms)

(***************************************************************************)
(* ASRData.merge_segments, ASRData.merge_with_next_segment                 *)
(* Indices are 0-based as in the source.  An optional text is <<>> for     *)
(* None and <<t>> for the text t.                                          *)
(***************************************************************************)
None == <<>>
Some(t) == <<t>>

\* a range check that also rejects start_index = end_index
MergeSegmentsRaisesOnSingle(segs, start_index, end_index) ==
    start_index < 0 \/ end_index >= Len(segs) \/ start_index >= end_index

MergeSegmentsRaises(segs, start_index, end_index) ==
    start_index < 0 \/ end_index >= Len(segs) \/ start_index > end_index

RECURSIVE JoinTexts(_)
JoinTexts(segs) ==
    IF segs = <<>> THEN <<>> ELSE Head(segs).text \o JoinTexts(Tail(segs))

\* a merge that keeps the end_time and translated_text of the first segment
MergeSegmentsOfKeepingFirst(segs, start_index, end_index, merged_text) ==
    LET first == segs[start_index + 1]
        text == IF merged_text = None
                THEN JoinTexts(SubSeq(segs, start_index + 1, end_index + 1))
                ELSE merged_text[1]
        merged_seg == ASRDataSeg(text, first.start_time, first.end_time,
                                 first.translated_text)
    IN SubSeq(segs, 1, start_index) \o <<merged_seg>>
       \o SubSeq(segs, end_index + 2, Len(segs))

MergeSegmentsOf(segs, start_index, end_index, merged_text) ==
    LET merged_start_time == segs[start_index + 1].start_time
        merged_end_time == segs[end_index + 1].end_time
        text == IF merged_text = None
                THEN JoinTexts(SubSeq(segs, start_index + 1, end_index + 1))
                ELSE merged_text[1]
        merged_seg == ASRDataSeg(text, merged_start_time, merged_end_time, <<>>)
    IN SubSeq(segs, 1, start_index) \o <<merged_seg>>
       \o SubSeq(segs, end_index + 2, Len(segs))

MergeWithNextRaises(segs, index) == index < 0 \/ index >= Len(segs) - 1

\* a merge with the next segment that joins the texts without a space
MergeWithNextSegmentOfNoSpace(segs, index) ==
    LET current_seg == segs[index + 1]
        next_seg == segs[index + 2]
        merged_seg == ASRDataSeg(current_seg.text \o next_seg.text,
                                 current_seg.start_time, next_seg.end_time, <<>>)
    IN SubSeq(segs, 1, index) \o <<merged_seg>> \o SubSeq(segs, index + 3, Len(segs))

MergeWithNextSegmentOf(segs, index) ==
    LET current_seg == segs[index + 1]
        next_seg == segs[index + 2]
        merged_text == current_seg.text \o <<"SP">> \o next_seg.text
        merged_seg == ASRDataSeg(merged_text, current_seg.start_time,
                                 next_seg.end_time, <<>>)
    IN SubSeq(segs, 1, index) \o <<merged_seg>> \o SubSeq(segs, index + 3, Len(segs))

(***************************************************************************)
(* ASRData.to_json, ASRData.from_json                                      *)
(* The dict is a function from the keys "1".."n", modelled by the numbers  *)
(* 1..n that int(key) yields, to the four-field records.                   *)
(***************************************************************************)
ToJson(segs) ==
    [i \in 1..Len(segs) |->
        [start_time |-> segs[i].start_time,
         end_time |-> segs[i].end_time,
         original_subtitle |-> segs[i].text,
         translated_subtitle |-> segs[i].translated_text]]

\* sorted(json_data.keys(), key=int): the keys in ascending order
RECURSIVE SortedKeys(_)
SortedKeys(keys) ==
    IF keys = {} THEN <<>>
    ELSE LET k == CHOOSE x \in keys : \A y \in keys : x <= y
         IN <<k>> \o SortedKeys(keys \ {k})

FromJson(json_data) ==
    LET keys == SortedKeys(DOMAIN json_data)
    IN NewASRData([n \in 1..Len(keys) |->
            ASRDataSeg(json_data[keys[n]].original_subtitle,
                       json_data[keys[n]].start_time,
                       json_data[keys[n]].end_time,
                       json_data[keys[n]].translated_subtitle)])

(***************************************************************************)
(* The document as a state machine: construction, then any sequence of     *)
(* the mutating operations.  last records the operation just performed,    *)
(* its arguments, the segments before it and whether it raised.            *)
(***************************************************************************)
\* no from_ass call is running
NoCall == [step |-> "none"]

Op(op, pre, i, j, mt, raised) ==
    [op |-> op, pre |-> pre, i |-> i, j |-> j, mt |-> mt, raised |-> raised]

\* the <<text, translated_text>> pairs of the segments a document is built from
InitTexts ==
    { << <<"SP">>, <<>> >>,
      << <<"FWCOMMA">>, <<>> >>,
      << <<"a", "SP", "b">>, <<"b", "FWCOMMA">> >> }

Spans(max_time) ==
    {p \in (0..max_time) \X (0..max_time) : p[1] <= p[2]}

SegmentsOver(texts, max_time) ==
    {ASRDataSeg(t[1], p[1], p[2], t[2]) : t \in texts, p \in Spans(max_time)}

ListsOver(S, n) == UNION {[1..k -> S] : k \in 0..n}

Init ==
    \E input \in ListsOver(SegmentsOver(InitTexts, MaxTime), MaxSegs) :
        /\ segments = NewASRData(input)
        /\ last = Op("init", input, 0, 0, None, FALSE)
        /\ ops = 0
        /\ from_ass = NoCall

Thresholds == {0, DefaultThresholdMs}
MergedTexts == {None, Some(<<"c">>)}
Indices == -1..Len(segments)

SplitToWordSegments ==
    /\ segments' = SplitToWordSegmentsOf(segments)
    /\ last' = Op("split_to_word_segments", segments, 0, 0, None, FALSE)

RemovePunctuation ==
    /\ segments' = RemovePunctuationOf(segments)
    /\ last' = Op("remove_punctuation", segments, 0, 0, None, FALSE)

OptimizeTiming(threshold_ms) ==
    /\ segments' = OptimizeTimingOf(segments, threshold_ms)
    /\ last' = Op("optimize_timing", segments, threshold_ms, 0, None, FALSE)

MergeSegments(start_index, end_index, merged_text) ==
    /\ segments' =
          IF MergeSegmentsRaises(segments, start_index, end_index)
          THEN segments
          ELSE MergeSegmentsOf(segments, start_index, end_index, merged_text)
    /\ last' = Op("merge_segments", segments, start_index, end_index, merged_text,
                  MergeSegmentsRaises(segments, start_index, end_index))

MergeWithNextSegment(index) ==
    /\ segments' =
          IF MergeWithNextRaises(segments, index)
          THEN segments
          ELSE MergeWithNextSegmentOf(segments, index)
    /\ last' = Op("merge_with_next_segment", segments, index, 0, None,
                  MergeWithNextRaises(segments, index))

Next ==
    /\ ops < MaxOps
    /\ ops' = ops + 1
    /\ UNCHANGED from_ass
    /\  \/ SplitToWordSegments
     \/ RemovePunctuation
     \/ \E threshold_ms \in Thresholds : OptimizeTiming(threshold_ms)
     \/ \E start_index \in Indices, end_index \in Indices, merged_text \in MergedTexts :
           MergeSegments(start_index, end_index, merged_text)
     \/ \E index \in Indices : MergeWithNextSegment(index)

Spec == Init /\ [][Next]_vars

(***************************************************************************)
(* Properties of the document over its whole life.                         *)
(***************************************************************************)

\* C1: in every state reached by construction followed by any sequence of
\* split_to_word_segments, remove_punctuation, optimize_timing,
\* merge_segments and merge_with_next_segment, the segments are sorted
\* non-decreasing by start_time.
C1_SortedByStartTime ==
    \A i \in 1..(Len(segments) - 1) :
        segments[i].start_time <= segments[i + 1].start_time

\* C2: in every such state no segment of the document has a text that is
\* empty after stripping whitespace.
C2_NoEmptyText ==
    \A i \in 1..Len(segments) : Strip(segments[i].text) # <<>>

\* C3: from_json(to_json(D)) holds the same ordered sequence of
\* (text, translated_text, start_time, end_time) as D, for the document D of
\* every reachable state.
C3_JsonRoundTrip ==
    FromJson(ToJson(segments)) = segments

(***************************************************************************)
(* optimize_timing on constructed documents.  Every segment is built with  *)
(* start_time <= end_time; segments may overlap.  The documents include    *)
(* the example [0,1000), [1200,2000).                                      *)
(***************************************************************************)
TimingMaxSegs == 3
TimingMaxTime == 4

TimingTexts == { << <<"a", "SP", "b">>, <<"c">> >> }

ExampleTiming ==
    << ASRDataSeg(<<"a", "SP", "b">>, 0, 1000, <<>>),
       ASRDataSeg(<<"a", "SP", "b">>, 1200, 2000, <<>>) >>

TimingThresholds == {-2, 1, 3, DefaultThresholdMs}

InitTiming ==
    \E input \in ListsOver(SegmentsOver(TimingTexts, TimingMaxTime), TimingMaxSegs)
                 \cup {ExampleTiming} :
        /\ segments = NewASRData(input)
        /\ last = Op("init", input, 0, 0, None, FALSE)
        /\ ops = 0
        /\ from_ass = NoCall

NextTiming ==
    /\ \E threshold_ms \in TimingThresholds : OptimizeTiming(threshold_ms)
    /\ UNCHANGED <<ops, from_ass>>

SpecTiming == InitTiming /\ [][NextTiming]_vars

\* q = floor(x / d) for d > 0, stated without a division
IsFloor(q, x, d) == d * q <= x /\ x < d * q + d

Floor(x, d) ==
    CHOOSE q \in (IF x < 0 THEN x ELSE 0)..(IF x < 0 THEN 0 ELSE x) : IsFloor(q, x, d)

Optimized == last.op = "optimize_timing"

SegmentsWellFormed(segs) ==
    \A i \in 1..Len(segs) : segs[i].start_time <= segs[i].end_time

SegmentsSorted(segs) ==
    \A i \in 1..(Len(segs) - 1) : segs[i].start_time <= segs[i + 1].start_time

\* C5: for a document sorted by start_time whose segments each have
\* start_time <= end_time, possibly overlapping one another, after
\* optimize_timing with a positive threshold every segment still has
\* start_time <= end_time and every adjacent pair has
\* end_time of i <= start_time of i+1.
C5_NonOverlappingTimeline ==
    (/\ Optimized
     /\ last.i > 0
     /\ SegmentsSorted(last.pre)
     /\ SegmentsWellFormed(last.pre)) =>
        /\ SegmentsWellFormed(segments)
        /\ \A i \in 1..(Len(segments) - 1) :
              segments[i].end_time <= segments[i + 1].start_time

(***************************************************************************)
(* merge_segments and merge_with_next_segment on constructed documents,    *)
(* with every index from -1 to the segment count.                          *)
(***************************************************************************)
MergeMaxSegs == 3

MergeSegs ==
    { ASRDataSeg(<<"a">>, 0, 1, <<"c">>),
      ASRDataSeg(<<"b", "SP", "c">>, 1, 3, <<>>),
      ASRDataSeg(<<"b", "SP", "c">>, 0, 1, <<>>) }

InitMerge ==
    \E input \in ListsOver(MergeSegs, MergeMaxSegs) :
        /\ segments = NewASRData(input)
        /\ last = Op("init", input, 0, 0, None, FALSE)
        /\ ops = 0
        /\ from_ass = NoCall

NextMerge ==
    /\ \/ \E start_index \in Indices, end_index \in Indices,
             merged_text \in MergedTexts :
                MergeSegments(start_index, end_index, merged_text)
       \/ \E index \in Indices : MergeWithNextSegment(index)
    /\ UNCHANGED <<ops, from_ass>>

SpecMerge == InitMerge /\ [][NextMerge]_vars

Merged == last.op = "merge_segments"
MergedWithNext == last.op = "merge_with_next_segment"

\* C7: merge_segments(start_index, end_index) raises exactly when not
\* (0 <= start_index <= end_index < segment count), and
\* merge_with_next_segment(index) raises exactly when not
\* (0 <= index < segment count - 1); a call that raises, also with a
\* negative index or on an empty document, leaves the segments unchanged.
C7_InvalidRangeErrors ==
    /\ Merged =>
          /\ last.raised <=>
                ~(0 <= last.i /\ last.i <= last.j /\ last.j < Len(last.pre))
          /\ last.raised => segments = last.pre
    /\ MergedWithNext =>
          /\ last.raised <=> ~(0 <= last.i /\ last.i < Len(last.pre) - 1)
          /\ last.raised => segments = last.pre

\* a merge_segments call with start_index > end_index, both inside the document
C7_Witness ==
    /\ Merged /\ last.raised
    /\ 0 <= last.j /\ last.j < last.i /\ last.i < Len(last.pre)
    /\ segments = last.pre

\* the texts of segs[a..b] one after the other
RECURSIVE TextsInOrder(_, _, _)
TextsInOrder(segs, a, b) ==
    IF a > b THEN <<>> ELSE TextsInOrder(segs, a, b - 1) \o segs[b].text

\* C8: a merge_segments(start_index, end_index, merged_text) that does not
\* raise replaces exactly the range [start_index, end_index] by one new
\* segment: the count decreases by end_index - start_index, the segments
\* before and after the range are unchanged and in order, and the new
\* segment has the start_time of the segment at start_index, the end_time
\* of the segment at end_index, an empty translated_text, and the text
\* merged_text if given, else the texts of the range concatenated in order
\* without a separator.
C8_MergeSegmentsResult ==
    (Merged /\ ~last.raised) =>
        LET pre == last.pre
            s == last.i + 1
            e == last.j + 1
            removed == e - s
        IN  /\ Len(segments) = Len(pre) - removed
            /\ \A k \in 1..(s - 1) : segments[k] = pre[k]
            /\ \A k \in (e + 1)..Len(pre) : segments[k - removed] = pre[k]
            /\ segments[s].start_time = pre[s].start_time
            /\ segments[s].end_time = pre[e].end_time
            /\ segments[s].translated_text = <<>>
            /\ segments[s].text =
                  IF last.mt = None THEN TextsInOrder(pre, s, e) ELSE last.mt[1]

\* a merge of the last two segments of a document of three, without a given text, whose first segment had a translation
C8_Witness ==
    /\ Merged /\ ~last.raised /\ last.mt = None
    /\ Len(last.pre) = 3 /\ last.i = 1 /\ last.j = 2
    /\ last.pre[2].translated_text # <<>>
    /\ last.pre[2].text # last.pre[3].text
    /\ last.pre[2].end_time # last.pre[3].end_time
    /\ Len(segments) = 2

\* C9: a merge_with_next_segment(index) that does not raise decreases the
\* segment count by one, leaves every segment other than those at index and
\* index + 1 unchanged and in order, and puts at index a new segment with
\* text = the current text, one space, the next text, the start_time of the
\* current segment, the end_time of the next and an empty translated_text;
\* the resulting sequence is that of merge_segments(index, index + 1) except
\* for the separator in the text.
C9_MergeWithNextResult ==
    (MergedWithNext /\ ~last.raised) =>
        LET pre == last.pre
            c == last.i + 1
            byMerge == MergeSegmentsOf(pre, last.i, last.i + 1, None)
        IN  /\ Len(segments) = Len(pre) - 1
            /\ \A k \in 1..(c - 1) : segments[k] = pre[k]
            /\ \A k \in (c + 2)..Len(pre) : segments[k - 1] = pre[k]
            /\ segments[c].text = pre[c].text \o <<"SP">> \o pre[c + 1].text
            /\ segments[c].start_time = pre[c].start_time
            /\ segments[c].end_time = pre[c + 1].end_time
            /\ segments[c].translated_text = <<>>
            /\ Len(byMerge) = Len(segments)
            /\ \A k \in 1..Len(segments) :
                  /\ byMerge[k].start_time = segments[k].start_time
                  /\ byMerge[k].end_time = segments[k].end_time
                  /\ byMerge[k].translated_text = segments[k].translated_text
                  /\ k # c => byMerge[k] = segments[k]
            /\ byMerge[c].text = pre[c].text \o pre[c + 1].text

\* the first two of three segments merged, the current one with a translation
C9_Witness ==
    /\ MergedWithNext /\ ~last.raised
    /\ Len(last.pre) = 3 /\ last.i = 0
    /\ last.pre[1].translated_text # <<>>
    /\ last.pre[1].text # last.pre[2].text
    /\ last.pre[1].end_time # last.pre[2].end_time
    /\ Len(segments) = 2

(***************************************************************************)
(* ASRData.from_ass, one step per line of ass_str.                         *)
(*                                                                         *)
(* A line is given by what ass_time_pattern extracts from it: a line that  *)
(* does not start with "Dialogue:" or does not match is "other"; a         *)
(* matching line has the groups start and end (H:MM:SS.cc as               *)
(* <<H, MM, SS, cc>>), style (after strip()) and text.  The text may hold  *)
(* "{" and "}" and the two-character sequence \N, written "BSN".           *)
(***************************************************************************)
AssMaxLines == 3

\* parse_ass_time
ParseAssTime(time_str) ==
    time_str[1] * 3600000 + time_str[2] * 60000 + time_str[3] * 1000
    + time_str[4] * 10

\* re.sub(r"\{[^}]*\}", "", text)
RECURSIVE SubOverrideBlocks(_)
SubOverrideBlocks(text) ==
    IF text = <<>> THEN <<>>
    ELSE IF Head(text) = "{" /\ \E j \in 2..Len(text) : text[j] = "}"
    THEN LET j == CHOOSE j \in 2..Len(text) :
                    /\ text[j] = "}"
                    /\ \A m \in 2..(j - 1) : text[m] # "}"
         IN SubOverrideBlocks(SubSeq(text, j + 1, Len(text)))
    ELSE <<Head(text)>> \o SubOverrideBlocks(Tail(text))

\* text.replace("\\N", "\n")
ReplaceBSN(text) ==
    [i \in 1..Len(text) |-> IF text[i] = "BSN" THEN "NL" ELSE text[i]]

CleanAssText(text) == Strip(ReplaceBSN(SubOverrideBlocks(text)))

\* f"{start_time}-{end_time}"
TimeKey(start_time, end_time) == <<start_time, end_time>>

\* time_key in temp_segments; temp_segments keeps its insertion order
HasKey(temp_segments, time_key) ==
    \E k \in 1..Len(temp_segments) : temp_segments[k].key = time_key

KeyIndex(temp_segments, time_key) ==
    CHOOSE k \in 1..Len(temp_segments) : temp_segments[k].key = time_key

RemoveAt(seq, k) == SubSeq(seq, 1, k - 1) \o SubSeq(seq, k + 1, Len(seq))

\* segment.translated_text = text if style == "Default" else segment.text = text
WithLineText(segment, style, text) ==
    IF style = "Default"
    THEN [segment EXCEPT !.translated_text = text]
    ELSE [segment EXCEPT !.text = text]

AssSpans ==
    { << <<0, 0, 0, 0>>, <<0, 0, 1, 50>> >>,
      << <<0, 0, 1, 50>>, <<0, 1, 0, 0>> >>,
      << <<0, 0, 1, 50>>, <<0, 0, 60, 0>> >> }
AssStyles == {"Default", "Secondary"}
AssLineTexts == { <<"a">>, <<"{", "c", "}", "b", "BSN", "c">>, <<"{", "c", "}", "SP">> }

AssLines ==
    {[kind |-> "other"]} \cup
    {[kind |-> "Dialogue", start |-> sp[1], end |-> sp[2], style |-> st, text |-> t] :
        sp \in AssSpans, st \in AssStyles, t \in AssLineTexts}

InitAss ==
    \E lines \in ListsOver(AssLines, AssMaxLines), has_translation \in BOOLEAN :
        /\ from_ass = [step |-> "start", lines |-> lines, line |-> 1,
                       has_translation |-> has_translation,
                       temp_segments |-> <<>>, segments |-> <<>>]
        /\ segments = <<>>
        /\ last = Op("none", <<>>, 0, 0, None, FALSE)
        /\ ops = 0

Running == from_ass.step \notin {"none", "return"} /\ from_ass.line <= Len(from_ass.lines)
Line == from_ass.lines[from_ass.line]
LineMatches == Line.kind = "Dialogue"
LineText == IF LineMatches THEN CleanAssText(Line.text) ELSE <<>>
LineKey == TimeKey(ParseAssTime(Line.start), ParseAssTime(Line.end))

Advance(step, temp_segments, segs) ==
    /\ from_ass' = [from_ass EXCEPT !.step = step, !.line = @ + 1,
                                    !.temp_segments = temp_segments,
                                    !.segments = segs]
    /\ UNCHANGED <<segments, last, ops>>

\* a line that is no Dialogue line or has no text left: continue
FromAssSkip ==
    /\ Running
    /\ LineText = <<>>
    /\ Advance("skip", from_ass.temp_segments, from_ass.segments)

\* not has_translation: the line is a segment of its own
FromAssPlain ==
    /\ Running /\ LineMatches /\ LineText # <<>>
    /\ ~from_ass.has_translation
    /\ Advance("plain", from_ass.temp_segments,
               Append(from_ass.segments,
                      ASRDataSeg(LineText, ParseAssTime(Line.start),
                                 ParseAssTime(Line.end), <<>>)))

\* has_translation, time_key not in temp_segments: store a new segment
FromAssBuffer ==
    /\ Running /\ LineMatches /\ LineText # <<>>
    /\ from_ass.has_translation
    /\ ~HasKey(from_ass.temp_segments, LineKey)
    /\ LET segment == ASRDataSeg(<<>>, ParseAssTime(Line.start),
                                 ParseAssTime(Line.end), <<>>)
       IN Advance("buffer",
                  Append(from_ass.temp_segments,
                         [key |-> LineKey,
                          segment |-> WithLineText(segment, Line.style, LineText)]),
                  from_ass.segments)

\* has_translation, time_key in temp_segments: fill, emit, delete the key
FromAssComplete ==
    /\ Running /\ LineMatches /\ LineText # <<>>
    /\ from_ass.has_translation
    /\ HasKey(from_ass.temp_segments, LineKey)
    /\ LET k == KeyIndex(from_ass.temp_segments, LineKey)
           segment == WithLineText(from_ass.temp_segments[k].segment,
                                   Line.style, LineText)
       IN Advance("complete", RemoveAt(from_ass.temp_segments, k),
                  Append(from_ass.segments, segment))

\* after the last line: the unpaired segments are appended, ASRData(segments)
FromAssReturn ==
    /\ from_ass.step \notin {"none", "return"}
    /\ from_ass.line > Len(from_ass.lines)
    /\ LET rest == [k \in 1..Len(from_ass.temp_segments) |->
                        from_ass.temp_segments[k].segment]
       IN /\ from_ass' = [from_ass EXCEPT !.step = "return",
                                          !.segments = @ \o rest]
          /\ segments' = NewASRData(from_ass.segments \o rest)
    /\ UNCHANGED <<last, ops>>

NextAss ==
    \/ FromAssSkip
    \/ FromAssPlain
    \/ FromAssBuffer
    \/ FromAssComplete
    \/ FromAssReturn

SpecAss == InitAss /\ [][NextAss]_vars

\* C10: in a bilingual parse the second Dialogue line with a key, whatever
\* the styles of the two lines, fills the field the first line left empty:
\* the segment emitted at that moment has both text and translated_text
\* non-empty, and the key is removed from the buffer.
C10_SecondLineCompletes ==
    from_ass.step = "complete" =>
        LET emitted == from_ass.segments[Len(from_ass.segments)]
        IN  /\ emitted.text # <<>>
            /\ emitted.translated_text # <<>>
            /\ ~HasKey(from_ass.temp_segments,
                       TimeKey(emitted.start_time, emitted.end_time))

(***************************************************************************)
(* split_to_word_segments on constructed documents.  The texts include the *)
(* example "hello world" shape (two five-letter words), a word of 25       *)
(* letters, a text without any token and a text of mixed scripts; the      *)
(* spans include overlapping ones, [0, 61) and the example's [0, 1000).    *)
(***************************************************************************)
SplitMaxSegs == 2

Repeat(c, n) == [i \in 1..n |-> c]

SplitTexts ==
    { << <<"a", "b", "c", "d", "e", "SP", "a", "b", "c", "d", "e">>, <<>> >>,
      << <<"a", "b", "c", "d", "e", "SP", "a">>, <<"c">> >>,
      << Repeat("a", 25), <<>> >>,
      << <<"FWCOMMA">>, <<>> >>,
      << <<"a", "b", "1", "HAN", "THAI_KO", "THAI_SARA_I", "IDEOSTOP">>, <<>> >> }

SplitSpans == { <<0, 0>>, <<1, 3>>, <<2, 9>>, <<0, 61>>, <<0, 1000>> }

InitSplit ==
    \E input \in ListsOver(
            {ASRDataSeg(t[1], sp[1], sp[2], t[2]) : t \in SplitTexts, sp \in SplitSpans},
            SplitMaxSegs) :
        /\ segments = NewASRData(input)
        /\ last = Op("init", input, 0, 0, None, FALSE)
        /\ ops = 0
        /\ from_ass = NoCall

NextSplit ==
    /\ SplitToWordSegments
    /\ UNCHANGED <<ops, from_ass>>

SpecSplit == InitSplit /\ [][NextSplit]_vars

WasSplit == last.op = "split_to_word_segments"

\* ceil(n / 4), stated without a division
Phonemes(n) == CHOOSE c \in 0..n : 4 * c >= n /\ 4 * (c - 1) < n

RECURSIVE TotalPhonemes(_)
TotalPhonemes(tokens) ==
    IF tokens = <<>> THEN 0
    ELSE Phonemes(Len(Head(tokens))) + TotalPhonemes(Tail(tokens))

\* the number of tokens of the segments before the i-th
RECURSIVE TokensBefore(_, _)
TokensBefore(segs, i) ==
    IF i <= 1 THEN 0
    ELSE TokensBefore(segs, i - 1) + Len(FindWords(segs[i - 1].text, 1))

\* C6: split_to_word_segments emits, for each segment with
\* start_time <= end_time and k >= 1 tokens, exactly k segments in token
\* order: the first starts at the segment's start_time, each next one starts
\* where the previous ends, token j lasts
\* floor(duration * phonemes_j / total phonemes) with
\* phonemes_j = ceil(len_j / 4), clamped so that its end does not exceed the
\* segment's end_time; so every emitted segment lies inside
\* [start_time, end_time] with start <= end, and "hello world" over
\* [0, 1000) gives [0, 500), [500, 1000).  A segment without tokens emits
\* nothing.
C6_ProportionalWordTimes ==
    WasSplit =>
        LET pre == last.pre
        IN  /\ Len(segments) = TokensBefore(pre, Len(pre) + 1)
            /\ \A i \in 1..Len(pre) :
                  LET tokens == FindWords(pre[i].text, 1)
                      k == Len(tokens)
                      off == TokensBefore(pre, i)
                      duration == pre[i].end_time - pre[i].start_time
                      total == TotalPhonemes(tokens)
                  IN (pre[i].start_time <= pre[i].end_time /\ k >= 1) =>
                        /\ segments[off + 1].start_time = pre[i].start_time
                        /\ \A j \in 1..k :
                              LET word == segments[off + j]
                                  share == Floor(duration * Phonemes(Len(tokens[j])),
                                                 total)
                              IN  /\ word.text = tokens[j]
                                  /\ word.end_time =
                                        Min(word.start_time + share, pre[i].end_time)
                                  /\ pre[i].start_time <= word.start_time
                                  /\ word.start_time <= word.end_time
                                  /\ word.end_time <= pre[i].end_time
                                  /\ j < k =>
                                        segments[off + j + 1].start_time = word.end_time

\* C6 as amended: the same, except that token j lasts
\* int((duration / total phonemes) * phonemes_j) as computed in double
\* precision, which is floor(duration * phonemes_j / total phonemes) or one
\* less, and is that floor whenever the quotient is not an integer.
C6_WordTimesUpToRounding ==
    WasSplit =>
        LET pre == last.pre
        IN  /\ Len(segments) = TokensBefore(pre, Len(pre) + 1)
            /\ \A i \in 1..Len(pre) :
                  LET tokens == FindWords(pre[i].text, 1)
                      k == Len(tokens)
                      off == TokensBefore(pre, i)
                      duration == pre[i].end_time - pre[i].start_time
                      total == TotalPhonemes(tokens)
                  IN (pre[i].start_time <= pre[i].end_time /\ k >= 1) =>
                        /\ segments[off + 1].start_time = pre[i].start_time
                        /\ \A j \in 1..k :
                              LET word == segments[off + j]
                                  product == duration * Phonemes(Len(tokens[j]))
                                  share == Floor(product, total)
                              IN  /\ word.text = tokens[j]
                                  /\ \E d \in {share - 1, share} :
                                        /\ d = share \/ share * total = product
                                        /\ word.end_time =
                                              Min(word.start_time + d, pre[i].end_time)
                                  /\ pre[i].start_time <= word.start_time
                                  /\ word.start_time <= word.end_time
                                  /\ word.end_time <= pre[i].end_time
                                  /\ j < k =>
                                        segments[off + j + 1].start_time = word.end_time

\* two five-letter words over [0, 1000) became [0, 500), [500, 1000), and a
\* word of 25 letters over [0, 61) became [0, 60)
C6_Witness ==
    /\ WasSplit /\ Len(last.pre) = 2 /\ Len(segments) = 3
    /\ last.pre[1].end_time = 1000 /\ Len(FindWords(last.pre[1].text, 1)) = 2
    /\ segments[1].start_time = 0 /\ segments[1].end_time = 500
    /\ segments[2].start_time = 500 /\ segments[2].end_time = 1000
    /\ Len(last.pre[2].text) = 25 /\ last.pre[2].end_time = 61
    /\ segments[3].start_time = 0 /\ segments[3].end_time = 60

(***************************************************************************)
(* ASRData.to_srt and ASRData.from_srt.  The SRT text is a sequence of     *)
(* characters like every other string; "NL" is the line feed.              *)
(*                                                                         *)
(* The layout values are written "original_on_top" for "原文在上",         *)
(* "translate_on_top" for "译文在上", "only_original" for "仅原文",        *)
(* "only_translate" for "仅译文", and "other" for any other string.        *)
(***************************************************************************)
Layouts ==
    {"original_on_top", "translate_on_top", "only_original", "only_translate",
     "other"}

DigitChars == <<"0", "1", "2", "3", "4", "5", "6", "7", "8", "9">>
IsDigit(c) == \E d \in 1..10 : DigitChars[d] = c
DigitValue(c) == (CHOOSE d \in 1..10 : DigitChars[d] = c) - 1

\* str(n) for n >= 0
RECURSIVE DecimalDigits(_)
DecimalDigits(n) ==
    IF n < 10 THEN <<DigitChars[n + 1]>>
    ELSE Append(DecimalDigits(n \div 10), DigitChars[(n % 10) + 1])

\* a formatting without zero padding
FormatIntUnpadded(n, w) ==
    (IF n < 0 THEN <<"-">> ELSE <<>>) \o DecimalDigits(IF n < 0 THEN -n ELSE n)

\* f"{n:0w}": zero padding to the width w, the sign included
FormatInt(n, w) ==
    LET d == DecimalDigits(IF n < 0 THEN -n ELSE n)
        sign == IF n < 0 THEN <<"-">> ELSE <<>>
        pad == Max(w - Len(d) - Len(sign), 0)
    IN sign \o [k \in 1..pad |-> "0"] \o d

\* int(s) for a string of digits
RECURSIVE ParseInt(_)
ParseInt(s) ==
    IF s = <<>> THEN 0
    ELSE 10 * ParseInt(SubSeq(s, 1, Len(s) - 1)) + DigitValue(s[Len(s)])

\* ASRDataSeg._ms_to_srt_time; divmod floors
MsToSrtTime(ms) ==
    LET total_seconds == ms \div 1000
        milliseconds == ms % 1000
        seconds == total_seconds % 60
        hours == (total_seconds \div 60) \div 60
        minutes == (total_seconds \div 60) % 60
    IN FormatInt(hours, 2) \o <<":">> \o FormatInt(minutes, 2) \o <<":">>
       \o FormatInt(seconds, 2) \o <<",">> \o FormatInt(milliseconds, 3)

\* ASRDataSeg.to_srt_ts
ToSrtTs(seg) ==
    MsToSrtTime(seg.start_time) \o <<"SP", "-", "-", ">", "SP">>
    \o MsToSrtTime(seg.end_time)

\* the text of one block of to_srt
SrtText(seg, layout) ==
    LET original == seg.text
        translated == seg.translated_text
    IN CASE layout = "original_on_top" ->
                IF translated # <<>> THEN original \o <<"NL">> \o translated
                ELSE original
         [] layout = "translate_on_top" ->
                IF translated # <<>> THEN translated \o <<"NL">> \o original
                ELSE original
         [] layout = "only_original" -> original
         [] layout = "only_translate" ->
                IF translated # <<>> THEN translated ELSE original
         [] OTHER -> seg.text

\* "\n".join(lines)
RECURSIVE JoinNL(_)
JoinNL(lines) ==
    IF lines = <<>> THEN <<>>
    ELSE IF Len(lines) = 1 THEN lines[1]
    ELSE lines[1] \o <<"NL">> \o JoinNL(Tail(lines))

\* ASRData.to_srt
ToSrt(segs, layout) ==
    JoinNL([n \in 1..Len(segs) |->
                DecimalDigits(n) \o <<"NL">> \o ToSrtTs(segs[n]) \o <<"NL">>
                \o SrtText(segs[n], layout) \o <<"NL">>])

\* the last index of the match of \n\s*\n that starts at i, 0 if none does
BlankLineEnd(s, i) ==
    IF s[i] # "NL" THEN 0
    ELSE LET k == RunEnd(s, i + 1, Whitespace)
             nls == {j \in (i + 1)..k : s[j] = "NL"}
         IN IF nls = {} THEN 0 ELSE CHOOSE j \in nls : \A m \in nls : m <= j

\* re.split(r"\n\s*\n", s), from index start on
RECURSIVE SplitBlocks(_, _)
SplitBlocks(s, start) ==
    LET seps == {i \in start..Len(s) : BlankLineEnd(s, i) # 0}
    IN IF seps = {} THEN <<SubSeq(s, start, Len(s))>>
       ELSE LET i == CHOOSE i \in seps : \A m \in seps : i <= m
                e == BlankLineEnd(s, i)
            IN <<SubSeq(s, start, i - 1)>> \o SplitBlocks(s, e + 1)

\* str.splitlines()
RECURSIVE SplitLines(_)
SplitLines(s) ==
    IF s = <<>> THEN <<>>
    ELSE LET nls == {i \in 1..Len(s) : s[i] = "NL"}
         IN IF nls = {} THEN <<s>>
            ELSE LET i == CHOOSE i \in nls : \A m \in nls : i <= m
                 IN <<SubSeq(s, 1, i - 1)>> \o SplitLines(SubSeq(s, i + 1, Len(s)))

\* (\d{2}):(\d{2}):(\d{1,2})[.,](\d{3}) matched at index i of line: whether
\* it matches, the index after the match and the milliseconds of the groups
MatchSrtTime(line, i) ==
    LET c(k) == IF i + k <= Len(line) THEN line[i + k] ELSE "EOS"
        n == IF IsDigit(c(6)) /\ IsDigit(c(7)) THEN 2 ELSE 1
        ok == /\ IsDigit(c(0)) /\ IsDigit(c(1)) /\ c(2) = ":"
              /\ IsDigit(c(3)) /\ IsDigit(c(4)) /\ c(5) = ":"
              /\ IsDigit(c(6)) /\ c(6 + n) \in {".", ","}
              /\ IsDigit(c(7 + n)) /\ IsDigit(c(8 + n)) /\ IsDigit(c(9 + n))
    IN [ok |-> ok,
        next |-> i + 10 + n,
        ms |-> IF ok
               THEN ParseInt(SubSeq(line, i, i + 1)) * 3600000
                    + ParseInt(SubSeq(line, i + 3, i + 4)) * 60000
                    + ParseInt(SubSeq(line, i + 6, i + 5 + n)) * 1000
                    + ParseInt(SubSeq(line, i + 7 + n, i + 9 + n))
               ELSE 0]

\* srt_time_pattern.match(line)
SrtTimePatternMatch(line) ==
    LET from == MatchSrtTime(line, 1)
        j == from.next
        arrow == /\ j + 4 <= Len(line)
                 /\ line[j] \in Whitespace
                 /\ line[j + 1] = "-" /\ line[j + 2] = "-" /\ line[j + 3] = ">"
                 /\ line[j + 4] \in Whitespace
        to == MatchSrtTime(line, j + 5)
    IN IF from.ok /\ arrow /\ to.ok
       THEN [ok |-> TRUE, start_time |-> from.ms, end_time |-> to.ms]
       ELSE [ok |-> FALSE, start_time |-> 0, end_time |-> 0]

\* the 4-line test of from_srt on the line counts of the blocks
HasTranslatedSubtitle(blocks) ==
    LET count(k) == Len(SplitLines(blocks[k]))
        four == Cardinality({k \in 1..Len(blocks) : count(k) = 4})
    IN /\ Len(blocks) > 0
       /\ \A k \in 1..Len(blocks) : count(k) <= 4
       /\ 100 * four >= 98 * Len(blocks)

\* the segments of one block of from_srt: none or one
SrtBlockSegments(block, has_translated_subtitle) ==
    LET lines == SplitLines(block)
    IN IF Len(lines) < 3 THEN <<>>
       ELSE LET match == SrtTimePatternMatch(lines[2])
            IN IF ~match.ok THEN <<>>
               ELSE IF has_translated_subtitle /\ Len(lines) >= 4
               THEN <<ASRDataSeg(lines[3], match.start_time, match.end_time,
                                 lines[4])>>
               ELSE <<ASRDataSeg(lines[3], match.start_time, match.end_time,
                                 <<>>)>>

RECURSIVE SrtSegments(_, _, _)
SrtSegments(blocks, k, has_translated_subtitle) ==
    IF k > Len(blocks) THEN <<>>
    ELSE SrtBlockSegments(blocks[k], has_translated_subtitle)
         \o SrtSegments(blocks, k + 1, has_translated_subtitle)

\* ASRData.from_srt
FromSrt(srt_str) ==
    LET blocks == SplitBlocks(Strip(srt_str), 1)
    IN NewASRData(SrtSegments(blocks, 1, HasTranslatedSubtitle(blocks)))

(***************************************************************************)
(* to_srt and from_srt as a state machine: a document is constructed,      *)
(* to_srt(layout) writes it, from_srt reads back what was written.         *)
(***************************************************************************)
SrtMaxSegs == 2

\* <<text, translated_text>>: plain, bilingual, two lines, trailing space
SrtTexts ==
    { << <<"a">>, <<>> >>,
      << <<"b", "SP", "c">>, <<"c">> >>,
      << <<"a", "NL", "b">>, <<>> >>,
      << <<"b", "SP">>, <<>> >> }

\* the last two spans lie outside of 00:00:00,000 .. 99:59:59,999
SrtSpans ==
    { <<0, 1000>>, <<1000, 3725004>>, <<359999999, 360000000>>, <<-1, 0>> }

InitSrt ==
    \E input \in ListsOver(
            {ASRDataSeg(t[1], sp[1], sp[2], t[2]) : t \in SrtTexts, sp \in SrtSpans},
            SrtMaxSegs) :
        /\ segments = NewASRData(input)
        /\ last = Op("init", input, 0, 0, None, FALSE)
        /\ ops = 0
        /\ from_ass = NoCall

to_srt(layout) ==
    /\ last.op # "to_srt"
    /\ last' = [op |-> "to_srt", pre |-> segments, layout |-> layout,
                srt_str |-> ToSrt(segments, layout)]
    /\ UNCHANGED segments

from_srt ==
    /\ last.op = "to_srt"
    /\ segments' = FromSrt(last.srt_str)
    /\ last' = [last EXCEPT !.op = "from_srt"]

NextSrt ==
    /\ \/ \E layout \in Layouts : to_srt(layout)
       \/ from_srt
    /\ UNCHANGED <<ops, from_ass>>

SpecSrt == InitSrt /\ [][NextSrt]_vars

\* from_srt has just read what to_srt wrote with the default layout
SrtRoundTrip == last.op = "from_srt" /\ last.layout = "original_on_top"

\* every block has at most 4 lines and at least 98% of them have exactly 4
BilingualPattern(srt_str) == HasTranslatedSubtitle(SplitBlocks(Strip(srt_str), 1))

\* same count, same order, same text, start_time and end_time
SameTextsAndTimes(a, b) ==
    /\ Len(a) = Len(b)
    /\ \A k \in 1..Len(a) :
          /\ a[k].text = b[k].text
          /\ a[k].start_time = b[k].start_time
          /\ a[k].end_time = b[k].end_time

SingleTrimmedLine(text) ==
    /\ text # <<>>
    /\ \A k \in 1..Len(text) : text[k] # "NL"
    /\ Strip(text) = text

\* the times to_srt writes as HH:MM:SS,mmm with two digits of hours
SrtTime(ms) == 0 <= ms /\ ms <= 359999999

WordMaxSegs == 5

WordSegs ==
    { ASRDataSeg(t, sp[1], sp[2], <<>>) :
        t \in { <<"a">>, <<"HAN">>, <<"a", "SP", "b">>, <<"HAN", "HAN", "HAN">> },
        sp \in { <<0, 1>>, <<4, 5>> } }

InitWord ==
    \E input \in ListsOver(WordSegs, WordMaxSegs) :
        /\ segments = NewASRData(input)
        /\ last = Op("init", input, 0, 0, None, FALSE)
        /\ ops = 0
        /\ from_ass = NoCall

NextWord ==
    /\ \E threshold_ms \in Thresholds : OptimizeTiming(threshold_ms)
    /\ UNCHANGED <<ops, from_ass>>

SpecWord == InitWord /\ [][NextWord]_vars

\* the trimmed text is one ASCII-only token without whitespace, or has at
\* most 2 characters
ValidWord(seg) ==
    LET t == Strip(seg.text)
    IN \/ t # <<>> /\ \A k \in 1..Len(t) : t[k] \in AsciiChars \ Whitespace
       \/ Len(t) <= 2

ValidCount(segs) == Cardinality({i \in 1..Len(segs) : ValidWord(segs[i])})

\* at least 80% of the segments are valid
WordLevel(segs) == segs # <<>> /\ 5 * ValidCount(segs) >= 4 * Len(segs)

TextLine(k) ==
    /\ from_ass.lines[k].kind = "Dialogue"
    /\ CleanAssText(from_ass.lines[k].text) # <<>>

SameKey(k, m) ==
    TimeKey(ParseAssTime(from_ass.lines[k].start), ParseAssTime(from_ass.lines[k].end))
    = TimeKey(ParseAssTime(from_ass.lines[m].start), ParseAssTime(from_ass.lines[m].end))

\* line k opens its key (the earlier lines with the key are paired off) and
\* no later line has the key
Unmatched(k) ==
    /\ TextLine(k)
    /\ Cardinality({m \in 1..(k - 1) : TextLine(m) /\ SameKey(k, m)}) % 2 = 0
    /\ \A m \in (k + 1)..Len(from_ass.lines) : ~(TextLine(m) /\ SameKey(k, m))

\* the segment of line k alone: its text in the field chosen by its style
SegmentOfLine(k) ==
    LET line == from_ass.lines[k]
        text == CleanAssText(line.text)
    IN IF line.style = "Default"
       THEN ASRDataSeg(<<>>, ParseAssTime(line.start), ParseAssTime(line.end), text)
       ELSE ASRDataSeg(text, ParseAssTime(line.start), ParseAssTime(line.end), <<>>)

\* C13: in a bilingual parse every Dialogue line with text whose key is not
\* matched by a later line is, whatever its style, one segment of the
\* returned document, with the line's times and its text in the field
\* chosen by its style.
C13_UnmatchedLinesFlushed ==
    (from_ass.step = "return" /\ from_ass.has_translation) =>
        \A k \in 1..Len(from_ass.lines) :
            Unmatched(k) =>
                Cardinality({i \in 1..Len(segments) : segments[i] = SegmentOfLine(k)}) >= 1

(***************************************************************************)
(* ASRData.to_ass.  The output is given as from_ass reads it: whether it   *)
(* holds "Script generated by VideoCaptioner", and its lines, each by what *)
(* ass_time_pattern extracts from it (see ASRData.from_ass above).  The    *)
(* three sections of the header, none of whose lines starts with           *)
(* "Dialogue:", are given as one line of kind "other" each.                *)
(***************************************************************************)
\* ASRDataSeg._ms_to_ass_ts: H:MM:SS.cc as <<H, MM, SS, cc>>; divmod floors
MsToAssTs(ms) ==
    LET total_seconds == ms \div 1000
        milliseconds == ms % 1000
    IN << (total_seconds \div 60) \div 60, (total_seconds \div 60) % 60,
          total_seconds % 60, milliseconds \div 10 >>

\* dialogue_template.format(start_time, end_time, style, text), as lines:
\* a text with line feeds continues on lines of its own, and a negative
\* time is written with a sign that \d+ does not match
DialogueLines(seg, style, text) ==
    LET nls == {k \in 1..Len(text) : text[k] = "NL"}
        cut == IF nls = {} THEN Len(text) + 1
               ELSE CHOOSE k \in nls : \A m \in nls : k <= m
        matches == seg.start_time >= 0 /\ seg.end_time >= 0
        first == IF matches
                 THEN [kind |-> "Dialogue", start |-> MsToAssTs(seg.start_time),
                       end |-> MsToAssTs(seg.end_time), style |-> style,
                       text |-> SubSeq(text, 1, cut - 1)]
                 ELSE [kind |-> "other"]
        rest == SplitLines(SubSeq(text, cut + 1, Len(text)))
    IN <<first>> \o [k \in 1..Len(rest) |-> [kind |-> "other"]]

\* the body of the loop of to_ass over the segments
SegmentDialogues(seg, layout) ==
    LET original == seg.text
        translated == seg.translated_text
        has_translation == translated # <<>> /\ Strip(translated) # <<>>
    IN CASE layout = "translate_on_top" ->
                IF has_translation
                THEN DialogueLines(seg, "Secondary", original)
                     \o DialogueLines(seg, "Default", translated)
                ELSE DialogueLines(seg, "Default", original)
         [] layout = "original_on_top" ->
                IF has_translation
                THEN DialogueLines(seg, "Secondary", translated)
                     \o DialogueLines(seg, "Default", original)
                ELSE DialogueLines(seg, "Default", original)
         [] layout = "only_original" -> DialogueLines(seg, "Default", original)
         [] layout = "only_translate" ->
                DialogueLines(seg, "Default",
                              IF has_translation THEN translated ELSE original)
         [] OTHER -> <<>>

RECURSIVE AllDialogues(_, _)
AllDialogues(segs, layout) ==
    IF segs = <<>> THEN <<>>
    ELSE SegmentDialogues(Head(segs), layout) \o AllDialogues(Tail(segs), layout)

AssHeader == <<[kind |-> "other"], [kind |-> "other"], [kind |-> "other"]>>

\* ASRData.to_ass with the default style_str
ToAss(segs, layout) ==
    [signed |-> TRUE, lines |-> AssHeader \o AllDialogues(segs, layout)]

(***************************************************************************)
(* to_ass and from_ass as a state machine: a document is constructed,      *)
(* to_ass(layout) writes it, from_ass reads what was written line by line. *)
(***************************************************************************)
AssFileMaxSegs == 2

\* <<text, translated_text>>
AssFileTexts ==
    { << <<"a">>, <<>> >>,
      << <<"a">>, <<"b">> >>,
      << <<"b", "SP", "c">>, <<"SP">> >>,
      << <<"a", "NL", "b">>, <<"c">> >> }

AssFileSpans == { <<0, 1000>>, <<1000, 3725000>>, <<1000, 2005>> }

InitAssFile ==
    \E input \in ListsOver(
            {ASRDataSeg(t[1], sp[1], sp[2], t[2]) :
                t \in AssFileTexts, sp \in AssFileSpans},
            AssFileMaxSegs) :
        /\ segments = NewASRData(input)
        /\ last = Op("init", input, 0, 0, None, FALSE)
        /\ ops = 0
        /\ from_ass = NoCall

to_ass(layout) ==
    /\ from_ass.step \in {"none", "return"}
    /\ last' = [op |-> "to_ass", pre |-> segments, layout |-> layout,
                ass |-> ToAss(segments, layout)]
    /\ from_ass' = NoCall
    /\ UNCHANGED <<segments, ops>>

\* from_ass is called with what to_ass wrote
FromAssCall ==
    /\ last.op = "to_ass" /\ from_ass.step = "none"
    /\ from_ass' = [step |-> "start", lines |-> last.ass.lines, line |-> 1,
                    has_translation |-> last.ass.signed,
                    temp_segments |-> <<>>, segments |-> <<>>]
    /\ UNCHANGED <<segments, last, ops>>

NextAssFile ==
    \/ \E layout \in Layouts : to_ass(layout)
    \/ FromAssCall
    \/ FromAssSkip
    \/ FromAssBuffer
    \/ FromAssComplete
    \/ FromAssReturn

SpecAssFile == InitAssFile /\ [][NextAssFile]_vars

\* the Dialogue lines among lines
Dialogues(lines) == SelectSeq(lines, LAMBDA l : l.kind = "Dialogue")

\* C14: for a layout outside the four recognized ones to_ass emits what it
\* emits for the original-only layout, one Dialogue line per segment with
\* the original text; and under every layout every segment yields at least
\* one Dialogue line.
C14_UnknownLayoutIsOriginalOnly ==
    last.op = "to_ass" =>
        /\ last.layout = "other" => last.ass = ToAss(last.pre, "only_original")
        /\ Len(Dialogues(last.ass.lines)) >= Len(last.pre)

\* from_ass has returned from reading what to_ass wrote with the default
\* layout
AssRoundTrip ==
    last.op = "to_ass" /\ last.layout = "original_on_top" /\ from_ass.step = "return"

\* single-line non-empty texts without braces, times that are multiples of
\* 10 ms, pairwise distinct (start_time, end_time) pairs
AssRoundTripInput(segs) ==
    /\ \A k \in 1..Len(segs) :
          /\ segs[k].text # <<>>
          /\ \A c \in 1..Len(segs[k].text) : segs[k].text[c] \notin {"NL", "{", "}"}
          /\ \A c \in 1..Len(segs[k].translated_text) :
                segs[k].translated_text[c] \notin {"NL", "{", "}"}
          /\ segs[k].start_time % 10 = 0 /\ segs[k].end_time % 10 = 0
    /\ \A k, m \in 1..Len(segs) :
          k # m => \/ segs[k].start_time # segs[m].start_time
                   \/ segs[k].end_time # segs[m].end_time

\* C15: for a document of single-line non-empty texts without braces, with
\* times that are multiples of 10 ms and pairwise distinct (start_time,
\* end_time) pairs, from_ass of to_ass with the default header and layout
\* has as many segments as the document, each with the text and the
\* translated_text it has in the document, those without translation
\* included, and the two never swapped.
C15_AssRoundTrip ==
    (AssRoundTrip /\ AssRoundTripInput(last.pre)) =>
        /\ Len(segments) = Len(last.pre)
        /\ \A k \in 1..Len(last.pre) :
              /\ segments[k].text = last.pre[k].text
              /\ segments[k].translated_text = last.pre[k].translated_text

(***************************************************************************)
(* optimize_timing and the order of its pairs.                             *)
(***************************************************************************)
\* the gap and the boundary of the pair (i, i + 1) of segs
PairGap(segs, i) == segs[i + 1].start_time - segs[i].end_time
PairBoundary(segs, i) ==
    Floor(segs[i].end_time + segs[i + 1].start_time, 2) + Floor(PairGap(segs, i), 4)

\* all pairs decided on segs and applied at once
AppliedAtOnce(segs, threshold_ms) ==
    [i \in 1..Len(segs) |->
        [segs[i] EXCEPT
            !.start_time =
                IF i > 1 /\ PairGap(segs, i - 1) < threshold_ms
                THEN PairBoundary(segs, i - 1) ELSE @,
            !.end_time =
                IF i < Len(segs) /\ PairGap(segs, i) < threshold_ms
                THEN PairBoundary(segs, i) ELSE @]]

\* the pairs i, i - 1, ..., 1 applied one after the other, each deciding on
\* the values it finds
RECURSIVE AppliedBackwards(_, _, _)
AppliedBackwards(segs, i, threshold_ms) ==
    IF i < 1 THEN segs
    ELSE AppliedBackwards(
            IF PairGap(segs, i) < threshold_ms
            THEN [segs EXCEPT ![i].end_time = PairBoundary(segs, i),
                              ![i + 1].start_time = PairBoundary(segs, i)]
            ELSE segs,
            i - 1, threshold_ms)

\* C16: the pass of optimize_timing is independent of the order of the
\* pairs: on a non-empty document that is not word-level the result is the
\* one of deciding every pair on the values before the call and applying
\* all updates at once, and the one of the pairs taken in reverse order;
\* and a second optimize_timing with the same threshold changes nothing.
C16_OrderIndependent ==
    /\ [](( Optimized /\ last.pre # <<>> /\ ~IsWordTimestamp(last.pre) ) =>
            /\ segments = AppliedAtOnce(last.pre, last.i)
            /\ segments = AppliedBackwards(last.pre, Len(last.pre) - 1, last.i))
    /\ [][( Optimized /\ last'.op = "optimize_timing" /\ last'.i = last.i )
            => segments' = segments]_vars

\* a second call with the same threshold: the document before it has a
\* negative boundary, which only an earlier call can have produced from
\* overlapping segments
C16_Witness ==
    /\ Optimized /\ Len(last.pre) = 3
    /\ last.i = 3
    /\ last.pre[1].end_time < 0
    /\ PairGap(last.pre, 1) = 0 /\ PairGap(last.pre, 2) = 0
    /\ segments = last.pre

====
